---- MODULE Spec2Model ----
(***************************************************************************)
(* aittributor: a git prepare-commit-msg hook that detects the AI coding   *)
(* agent behind a commit and appends attribution trailers.                 *)
(*                                                                         *)
(* Strings are TLA+ strings; TLC treats them as sequences of characters    *)
(* (Len, SubSeq, \o), so substring search, lowercasing and path splitting  *)
(* are computed character by character, as the Rust code computes them.    *)
(* An Option<&Agent> is an index into the registry, 0 standing for None.   *)
(***************************************************************************)
EXTENDS Naturals, Sequences, FiniteSets, TLC

(***************************************************************************)
(* Bounds of the model.                                                    *)
(***************************************************************************)
\* directory components put in front of a looked-up token
MaxDepth == 1

(***************************************************************************)
(* String helpers: str::contains, str::starts_with, str::to_lowercase.     *)
(***************************************************************************)
CharAt(s, i) == SubSeq(s, i, i)

Contains(s, p) ==
    \E i \in 1..(Len(s) + 1) :
        /\ i + Len(p) - 1 <= Len(s)
        /\ SubSeq(s, i, i + Len(p) - 1) = p

StartsWith(s, p) == Len(p) <= Len(s) /\ SubSeq(s, 1, Len(p)) = p

EndsWith(s, p) == Len(p) <= Len(s) /\ SubSeq(s, Len(s) - Len(p) + 1, Len(s)) = p

UpperChars == "ABCDEFGHIJKLMNOPQRSTUVWXYZ"
LowerChars == "abcdefghijklmnopqrstuvwxyz"

LowerChar(c) ==
    IF \E i \in 1..Len(UpperChars) : CharAt(UpperChars, i) = c
    THEN CharAt(LowerChars, CHOOSE i \in 1..Len(UpperChars) : CharAt(UpperChars, i) = c)
    ELSE c

\* computed by halves, so that the nesting stays logarithmic in the length
RECURSIVE to_lowercase(_)
to_lowercase(s) ==
    IF Len(s) = 0 THEN ""
    ELSE IF Len(s) = 1 THEN LowerChar(s)
    ELSE LET h == Len(s) \div 2
         IN  to_lowercase(SubSeq(s, 1, h)) \o to_lowercase(SubSeq(s, h + 1, Len(s)))

(***************************************************************************)
(* std::path::Path on Unix.  Segments splits at '/', one segment per       *)
(* separator-delimited piece (empty pieces included).  Components is       *)
(* Path::components: a leading "/" is the root component, empty pieces     *)
(* and "." pieces are dropped, except a "." that leads a relative path.    *)
(***************************************************************************)
\* str::split: the pieces between the occurrences of the separator character
SplitAt(s, sep) ==
    LET at     == {i \in 1..Len(s) : CharAt(s, i) = sep}
        nth(k) == IF k = 0 THEN 0
                  ELSE IF k > Cardinality(at) THEN Len(s) + 1
                  ELSE CHOOSE i \in at : Cardinality({j \in at : j < i}) = k - 1
    IN  [k \in 1..(Cardinality(at) + 1) |-> SubSeq(s, nth(k - 1) + 1, nth(k) - 1)]

Segments(path) == SplitAt(path, "/")

RECURSIVE DropDots(_)
DropDots(segs) ==
    IF segs = <<>> THEN <<>>
    ELSE IF Head(segs) = "" \/ Head(segs) = "." THEN DropDots(Tail(segs))
         ELSE <<Head(segs)>> \o DropDots(Tail(segs))

Components(path) ==
    LET segs == Segments(path)
        abs  == StartsWith(path, "/")
        lead == IF abs THEN <<"/">>
                ELSE IF Len(path) > 0 /\ Head(segs) = "." THEN <<".">>
                ELSE <<>>
    IN  lead \o DropDots(segs)

\* the last component when it is a normal one, else None (modelled as <<>>;
\* a found name is the one-element sequence <<name>>)
LastNormal(cs) ==
    IF cs = <<>> \/ cs[Len(cs)] \in {"/", ".", ".."} THEN <<>> ELSE <<cs[Len(cs)]>>

\* Path::file_name
file_name(path) == LastNormal(Components(path))

IsPrefix(bc, pc) == Len(bc) <= Len(pc) /\ \A i \in 1..Len(bc) : pc[i] = bc[i]

\* Path::starts_with: component-wise prefix.
path_starts_with(path, base) == IsPrefix(Components(base), Components(path))

(***************************************************************************)
(* The registry of known agents (agent.rs), in declaration order.          *)
(***************************************************************************)
KNOWN_AGENTS_shadowing ==
    << [process_names |-> <<"claude", "code">>, env_vars |-> <<>>,
        email |-> "Claude Code <noreply@anthropic.com>"],
       [process_names |-> <<"goose">>, env_vars |-> <<>>,
        email |-> "Goose <opensource@block.xyz>"],
       [process_names |-> <<"cursor", "cursor-agent">>, env_vars |-> <<>>,
        email |-> "Cursor <noreply@cursor.com>"],
       [process_names |-> <<"aider">>, env_vars |-> <<>>,
        email |-> "Aider <noreply@aider.chat>"],
       [process_names |-> <<"windsurf">>, env_vars |-> <<>>,
        email |-> "Windsurf <noreply@codeium.com>"],
       [process_names |-> <<"codex">>, env_vars |-> <<>>,
        email |-> "Codex <noreply@openai.com>"],
       [process_names |-> <<"copilot-agent">>, env_vars |-> <<>>,
        email |-> "GitHub Copilot <noreply@github.com>"],
       [process_names |-> <<"amazon-q", "q">>, env_vars |-> <<>>,
        email |-> "Amazon Q Developer <noreply@amazon.com>"],
       [process_names |-> <<"amp">>, env_vars |-> <<>>,
        email |-> "Amp <amp@ampcode.com>"],
       [process_names |-> <<>>, env_vars |-> << <<"CLINE_ACTIVE", "true">> >>,
        email |-> "Cline <noreply@cline.bot>"],
       [process_names |-> <<"gemini">>, env_vars |-> <<>>,
        email |-> "Gemini CLI Agent <gemini-cli-agent@google.com>"] >>

KNOWN_AGENTS ==
    << [process_names |-> <<"claude">>, env_vars |-> <<>>,
        email |-> "Claude Code <noreply@anthropic.com>"],
       [process_names |-> <<"goose">>, env_vars |-> <<>>,
        email |-> "Goose <opensource@block.xyz>"],
       [process_names |-> <<"cursor", "cursor-agent">>, env_vars |-> <<>>,
        email |-> "Cursor <noreply@cursor.com>"],
       [process_names |-> <<"aider">>, env_vars |-> <<>>,
        email |-> "Aider <noreply@aider.chat>"],
       [process_names |-> <<"windsurf">>, env_vars |-> <<>>,
        email |-> "Windsurf <noreply@codeium.com>"],
       [process_names |-> <<"codex">>, env_vars |-> <<>>,
        email |-> "Codex <noreply@openai.com>"],
       [process_names |-> <<"copilot-agent">>, env_vars |-> <<>>,
        email |-> "GitHub Copilot <noreply@github.com>"],
       [process_names |-> <<"amazon-q", "q">>, env_vars |-> <<>>,
        email |-> "Amazon Q Developer <noreply@amazon.com>"],
       [process_names |-> <<"amp">>, env_vars |-> <<>>,
        email |-> "Amp <amp@ampcode.com>"],
       [process_names |-> <<>>, env_vars |-> << <<"CLINE_ACTIVE", "true">> >>,
        email |-> "Cline <noreply@cline.bot>"],
       [process_names |-> <<"gemini">>, env_vars |-> <<>>,
        email |-> "Gemini CLI Agent <gemini-cli-agent@google.com>"] >>

\* The registry main.rs declares for itself: the same entries in the same
\* order, with two identities spelled differently.
main_KNOWN_AGENTS ==
    [i \in 1..Len(KNOWN_AGENTS) |->
        [process_names |-> KNOWN_AGENTS[i].process_names,
         env_vars      |-> KNOWN_AGENTS[i].env_vars,
         email         |-> IF KNOWN_AGENTS[i].process_names = <<"goose">>
                             THEN "Goose <noreply@block.xyz>"
                           ELSE IF KNOWN_AGENTS[i].process_names = <<"gemini">>
                             THEN "Gemini <218195315+gemini-cli@users.noreply.github.com>"
                           ELSE KNOWN_AGENTS[i].email]]

\* Iterator::find over a registry, given the indices of the entries that
\* satisfy the predicate: the first of them, 0 for None
MinOrZero(S) == IF S = {} THEN 0 ELSE CHOOSE i \in S : \A j \in S : i <= j

\* Iterator::rfind, the last of them: what find_by_name must not be
MaxOrZero(S) == IF S = {} THEN 0 ELSE CHOOSE i \in S : \A j \in S : i >= j

\* Option::unwrap_or
unwrap_or(opt, default) == IF opt = <<>> THEN default ELSE opt[1]

basename_of(name) == unwrap_or(file_name(name), name)

NameMatches(agent, basename_lower) ==
    /\ agent.process_names # <<>>
    /\ \E k \in 1..Len(agent.process_names) :
          Contains(basename_lower, agent.process_names[k])

\* the entries of a registry that a lowercased basename matches
NamedBy(registry, basename_lower) ==
    {i \in 1..Len(registry) : NameMatches(registry[i], basename_lower)}

find_by_name_last(name) ==
    MaxOrZero(NamedBy(KNOWN_AGENTS, to_lowercase(basename_of(name))))

\* Agent::find_by_name
find_by_name(name) ==
    MinOrZero(NamedBy(KNOWN_AGENTS, to_lowercase(basename_of(name))))

(***************************************************************************)
(* The commit message file and `git interpret-trailers`, as append_trailers *)
(* invokes it: --in-place --trailer "Co-authored-by: <identity>"            *)
(* --if-exists addIfDifferent --trailer "Ai-assisted: true".  The first     *)
(* trailer keeps git's default if-exists policy, addIfDifferentNeighbor;    *)
(* the option applies to the trailer after it.  The messages are lines      *)
(* ended by a newline, without comment lines, a "---" divider, indented     *)
(* continuation lines or blank lines at the end.                            *)
(***************************************************************************)
NL == "\n"

\* the lines of a text; a final newline ends the last line
Lines(text) ==
    LET pieces == SplitAt(text, NL)
    IN  IF pieces[Len(pieces)] = "" THEN SubSeq(pieces, 1, Len(pieces) - 1)
        ELSE pieces

RECURSIVE Unlines(_)
Unlines(lines) ==
    IF lines = <<>> THEN "" ELSE Head(lines) \o NL \o Unlines(Tail(lines))

IsSpace(c) == c = " " \/ c = "\t"

IsBlank(line) == \A i \in 1..Len(line) : IsSpace(CharAt(line, i))

TokenChars == "abcdefghijklmnopqrstuvwxyzABCDEFGHIJKLMNOPQRSTUVWXYZ0123456789-"

\* trailer.c find_separator: the position of the first ':' when what precedes
\* it is a token of letters, digits and '-', then possibly blanks (a blank
\* cannot start the line); 0 when there is no such separator
find_separator(line) ==
    IF ~Contains(line, ":") THEN 0
    ELSE LET colon == CHOOSE i \in 1..Len(line) :
                         /\ CharAt(line, i) = ":"
                         /\ \A j \in 1..(i - 1) : CharAt(line, j) # ":"
         IN  IF \E k \in 0..(colon - 1) :
                   /\ \A j \in 1..k : Contains(TokenChars, CharAt(line, j))
                   /\ \A j \in (k + 1)..(colon - 1) : IsSpace(CharAt(line, j))
                   /\ k = 0 => colon = 1
             THEN colon ELSE 0

IsTrailerLine(line) ==
    /\ Len(line) > 0
    /\ ~IsSpace(CharAt(line, 1))
    /\ find_separator(line) >= 2

RECURSIVE TrimLeft(_)
TrimLeft(s) ==
    IF Len(s) > 0 /\ IsSpace(CharAt(s, 1)) THEN TrimLeft(SubSeq(s, 2, Len(s))) ELSE s

RECURSIVE TrimRight(_)
TrimRight(s) ==
    IF Len(s) > 0 /\ IsSpace(CharAt(s, Len(s)))
    THEN TrimRight(SubSeq(s, 1, Len(s) - 1)) ELSE s

\* an item of the trailer block: a trailer (token, value) or, with an empty
\* token, a line of the block that is no trailer, kept as it is
ParseItem(line) ==
    IF IsTrailerLine(line)
    THEN LET sep == find_separator(line)
         IN  [token |-> TrimRight(SubSeq(line, 1, sep - 1)),
              value |-> TrimRight(TrimLeft(SubSeq(line, sep + 1, Len(line))))]
    ELSE [token |-> "", value |-> line]

FormatItem(item) ==
    IF item.token = "" THEN item.value ELSE item.token \o ": " \o item.value

GitGenerated(line) ==
    StartsWith(line, "Signed-off-by: ") \/ StartsWith(line, "(cherry picked from commit ")

\* the index of the first blank line: the end of the title paragraph
EndOfTitle(lines) ==
    IF \E i \in 1..Len(lines) : IsBlank(lines[i])
    THEN CHOOSE i \in 1..Len(lines) :
            IsBlank(lines[i]) /\ \A j \in 1..(i - 1) : ~IsBlank(lines[j])
    ELSE Len(lines) + 1

\* trailer.c find_trailer_block_start, scanning upwards from the last line:
\* the block is the last paragraph if it is not the title and either holds
\* only trailers or holds a git-generated trailer and at least 25% trailers.
\* The result is the index of the block's first line, Len(lines)+1 for none.
RECURSIVE ScanBlock(_, _, _, _, _, _)
ScanBlock(lines, i, trailers, others, recognized, only_blank) ==
    IF i < EndOfTitle(lines) \/ i < 1 THEN Len(lines) + 1
    ELSE IF IsBlank(lines[i])
         THEN IF only_blank
              THEN ScanBlock(lines, i - 1, trailers, others, recognized, TRUE)
              ELSE IF \/ recognized /\ trailers * 3 >= others
                      \/ trailers > 0 /\ others = 0
                   THEN i + 1
                   ELSE Len(lines) + 1
    ELSE IF GitGenerated(lines[i])
         THEN ScanBlock(lines, i - 1, trailers + 1, others, TRUE, FALSE)
    ELSE IF IsTrailerLine(lines[i])
         THEN ScanBlock(lines, i - 1, trailers + 1, others, recognized, FALSE)
    ELSE ScanBlock(lines, i - 1, trailers, others + 1, recognized, FALSE)

TrailerBlockStart(lines) == ScanBlock(lines, Len(lines), 0, 0, FALSE, TRUE)

\* trailer.c same_token: the shorter token is a prefix of the longer one,
\* letter case ignored; same_value: equal, letter case ignored
SameToken(item, token) ==
    /\ item.token # ""
    /\ LET m == IF Len(item.token) < Len(token) THEN Len(item.token) ELSE Len(token)
       IN  to_lowercase(SubSeq(item.token, 1, m)) = to_lowercase(SubSeq(token, 1, m))

SameTrailer(item, token, value) ==
    SameToken(item, token) /\ to_lowercase(item.value) = to_lowercase(value)

\* one --trailer argument placed at the end (where=end).  With no trailer of
\* that token in the block it is added (if-missing add).  Otherwise
\* addIfDifferentNeighbor adds it unless the block's last item is the same
\* trailer; addIfDifferent adds it unless some item of the block is.
ApplyTrailerArg(items, token, value, if_exists) ==
    LET new == [token |-> token, value |-> value]
    IN  IF ~\E i \in 1..Len(items) : SameToken(items[i], token)
        THEN Append(items, new)
        ELSE IF if_exists = "addIfDifferentNeighbor"
             THEN IF SameTrailer(items[Len(items)], token, value)
                  THEN items ELSE Append(items, new)
        ELSE IF \E i \in 1..Len(items) : SameTrailer(items[i], token, value)
             THEN items ELSE Append(items, new)

\* git interpret-trailers --in-place on the file's text
git_interpret_trailers(content, co_authored_value) ==
    LET lines  == Lines(content)
        start  == TrailerBlockStart(lines)
        before == SubSeq(lines, 1, start - 1)
        items  == [i \in 1..(Len(lines) - start + 1) |-> ParseItem(lines[start + i - 1])]
        step1  == ApplyTrailerArg(items, "Co-authored-by", co_authored_value,
                                  "addIfDifferentNeighbor")
        step2  == ApplyTrailerArg(step1, "Ai-assisted", "true", "addIfDifferent")
        \* the text before the block, as it is in the file
        head   == IF start > Len(lines) THEN content ELSE Unlines(before)
        \* a newline is written unless that text ends with a blank line
        gap    == IF before # <<>> /\ IsBlank(before[Len(before)]) THEN "" ELSE NL
    IN  head \o gap \o Unlines([i \in 1..Len(step2) |-> FormatItem(step2[i])])

\* append_trailers(commit_msg_file, agent): io is what the file system and
\* the git child process do: "ok", "read_err" (read_to_string fails) or
\* "git_err" (git cannot be run or exits non-zero, leaving the file alone).
append_trailers(content, email, io) ==
    IF io = "read_err" THEN [content |-> content, result |-> "Err"]
    ELSE IF Contains(content, "Co-authored-by:") /\ Contains(content, email)
         THEN [content |-> content, result |-> "Ok"]
    ELSE IF io = "git_err" THEN [content |-> content, result |-> "Err"]
    ELSE [content |-> git_interpret_trailers(content, email), result |-> "Ok"]

(***************************************************************************)
(* Lookups of main.rs, over the registry main.rs declares.                 *)
(***************************************************************************)
\* std::env::var(key).ok(): <<>> for None, <<value>> for Some(value)
EnvVar(env_map, key) == IF key \in DOMAIN env_map THEN env_map[key] ELSE <<>>

EnvMatches(agent, env_map) ==
    /\ agent.env_vars # <<>>
    /\ \A k \in 1..Len(agent.env_vars) :
          EnvVar(env_map, agent.env_vars[k][1]) = <<agent.env_vars[k][2]>>

\* Agent::find_by_env (agent.rs)
find_by_env(env_map) ==
    MinOrZero({i \in 1..Len(KNOWN_AGENTS) : EnvMatches(KNOWN_AGENTS[i], env_map)})

\* find_agent_by_env without the is_empty guard: all() of no pairs is true
find_agent_by_env_unguarded(env_map) ==
    MinOrZero({i \in 1..Len(main_KNOWN_AGENTS) :
                  \A k \in 1..Len(main_KNOWN_AGENTS[i].env_vars) :
                     EnvVar(env_map, main_KNOWN_AGENTS[i].env_vars[k][1])
                        = <<main_KNOWN_AGENTS[i].env_vars[k][2]>>})

\* find_agent_by_env (main.rs)
find_agent_by_env(env_map) ==
    MinOrZero({i \in 1..Len(main_KNOWN_AGENTS) : EnvMatches(main_KNOWN_AGENTS[i], env_map)})

\* find_agent_by_name (main.rs)
find_agent_by_name(name) ==
    MinOrZero(NamedBy(main_KNOWN_AGENTS, to_lowercase(basename_of(name))))

\* the first argument of argv[1:] that does not start with '-', <<>> for None
FirstNonFlagArg(cmd) ==
    LET idx == {i \in 2..Len(cmd) : ~StartsWith(cmd[i], "-")}
    IN  IF idx = {} THEN <<>>
        ELSE <<cmd[CHOOSE i \in idx : \A j \in idx : i <= j]>>

\* the first Some of a sequence of lookups, 0 when all are None
FirstSome(results) ==
    IF \A i \in 1..Len(results) : results[i] = 0 THEN 0
    ELSE results[MinOrZero({i \in 1..Len(results) : results[i] # 0})]

\* the names find_agent_for_process tries, in order: the binary name,
\* argv[0], the first argument that is no flag
NamesOf(process) ==
    <<process.name>>
      \o (IF process.cmd = <<>> THEN <<>> ELSE <<process.cmd[1]>>)
      \o FirstNonFlagArg(process.cmd)

\* find_agent_for_process: the first of the names that finds an agent decides
find_agent_for_process(process) ==
    FirstSome([i \in 1..Len(NamesOf(process)) |->
                  find_agent_by_name(NamesOf(process)[i])])

(***************************************************************************)
(* The process table.  A process is [parent, image]: parent 0 is None, the *)
(* image holds the binary name, argv and the working directory (<<>> when  *)
(* the OS reports none).  A snapshot (sysinfo::System) is the table and    *)
(* the order in which its HashMap iterates, which the code does not fix.   *)
(***************************************************************************)
\* processes in the table
NumPids == 3

Pids == 1..NumPids

\* std::process::id(): the hook's own process
CurrentPid == 1

RepoPath == "/Users/foo/aittributor"

ProcessImages ==
    { [name |-> "zsh", cmd |-> <<"-zsh">>, cwd |-> <<"/Users/foo/aittributor">>],
      [name |-> "claude", cmd |-> <<"claude">>, cwd |-> <<"/Users/foo/aittributor/src">>],
      [name |-> "node", cmd |-> <<"node", "--no-warnings", "/opt/homebrew/bin/amp">>,
       cwd |-> <<"/Users/foo/aittributor2">>],
      [name |-> "Codex", cmd |-> <<>>, cwd |-> <<>>] }

\* the tables of the orchestration runs: every parent has a larger pid, so
\* the parent pointers form a forest above the hook's process
ProcessTables ==
    {t \in [Pids -> [parent : 0..NumPids, image : ProcessImages]] :
        \A p \in Pids : t[p].parent = 0 \/ t[p].parent > p}

Orders == Permutations(Pids)

NoSystem == [procs |-> <<>>, order |-> <<>>]

\* system.process(pid): present in the snapshot or not
HasProcess(system_, pid) == pid \in DOMAIN system_.procs

\* the pids whose parent is pid, in the HashMap's iteration order
ChildrenOf(system_, pid) ==
    SelectSeq(system_.order,
              LAMBDA c : HasProcess(system_, c) /\ system_.procs[c].parent = pid)

\* an agent counts when the process has a cwd and the cwd is under repo_path
\* a subtree search that takes the agent wherever the process runs
InRepo_anywhere(agent, cwd, repo) == agent

InRepo(agent, cwd, repo) ==
    IF agent # 0 /\ cwd # <<>> /\ path_starts_with(cwd[1], repo) THEN agent ELSE 0

TreeMatch(system_, pid, repo) ==
    InRepo(find_agent_for_process(system_.procs[pid].image),
           system_.procs[pid].image.cwd, repo)

\* check_process_tree: breadth-first over the subtree of root_pid, returning
\* the first process that matches an agent with a cwd under repo_path; a pid
\* already visited or missing from the snapshot is passed over
RECURSIVE TreeSearch(_, _, _, _)
TreeVisit(agent, system_, queue, visited, repo) ==
    IF agent # 0 THEN agent
    ELSE TreeSearch(system_, Tail(queue) \o ChildrenOf(system_, Head(queue)),
                    visited \cup {Head(queue)}, repo)

TreeSearch(system_, queue, visited, repo) ==
    IF queue = <<>> THEN 0
    ELSE IF Head(queue) \in visited \/ ~HasProcess(system_, Head(queue))
    THEN TreeSearch(system_, Tail(queue), visited \cup {Head(queue)}, repo)
    ELSE TreeVisit(TreeMatch(system_, Head(queue), repo),
                   system_, queue, visited, repo)

check_process_tree(system_, root_pid, repo) ==
    TreeSearch(system_, <<root_pid>>, {}, repo)

\* the sibling loop of walk_ancestry_and_descendants: the first child of
\* parent_pid, in iteration order, whose subtree holds a match
FirstSiblingMatch(system_, parent_pid, repo) ==
    FirstSome([i \in 1..Len(ChildrenOf(system_, parent_pid)) |->
                  check_process_tree(system_, ChildrenOf(system_, parent_pid)[i], repo)])

(***************************************************************************)
(* Breadcrumbs (breadcrumbs.rs): session files agents leave under $HOME.   *)
(* The home directory is [HOME, dirs, files]: HOME is <<>> when unset,     *)
(* dirs the base directories that exist, and a file is [base, path, age,   *)
(* readable, lines], age being the seconds since it was modified.          *)
(***************************************************************************)
CUTOFF_SECS == 7200

MAX_LINES_TO_SCAN == 5

SOURCES ==
    << [email_prefix |-> "Claude Code", base_dir |-> ".claude/projects",
        file_ext |-> "jsonl"],
       [email_prefix |-> "Codex", base_dir |-> ".codex/sessions",
        file_ext |-> "jsonl"] >>

\* the index of the first occurrence of p in s, 0 when there is none
IndexOf(s, p) ==
    IF ~Contains(s, p) THEN 0
    ELSE CHOOSE i \in 1..(Len(s) + 1) :
            /\ i + Len(p) - 1 <= Len(s)
            /\ SubSeq(s, i, i + Len(p) - 1) = p
            /\ \A j \in 1..(i - 1) : SubSeq(s, j, j + Len(p) - 1) # p

is_recent(file) == file.age <= CUTOFF_SECS

\* Path::extension: what follows the last '.' of the file name, unless the
\* name has no '.' or only a leading one
has_extension(path, ext) ==
    LET fn == file_name(path)
    IN  /\ fn # <<>>
        /\ LET dots == {i \in 2..Len(fn[1]) : CharAt(fn[1], i) = "."}
           IN  /\ dots # {}
               /\ SubSeq(fn[1], (CHOOSE i \in dots : \A j \in dots : j <= i) + 1,
                         Len(fn[1])) = ext

find_agent(email_prefix) ==
    MinOrZero({i \in 1..Len(KNOWN_AGENTS) : StartsWith(KNOWN_AGENTS[i].email, email_prefix)})

\* extract_cwd_from_json: the text between the marker "cwd":" and the next
\* double quote; <<>> for None
extract_cwd_from_json(line) ==
    LET marker == "\"cwd\":\""
        at     == IndexOf(line, marker)
        rest   == SubSeq(line, at + Len(marker), Len(line))
        end    == IndexOf(rest, "\"")
    IN  IF at = 0 \/ end = 0 THEN <<>> ELSE <<SubSeq(rest, 1, end - 1)>>

\* the naive comparison: the repository path is a prefix of the cwd string
cwd_matches_repo_by_string(cwd, repo) == StartsWith(cwd, repo)

\* cwd_matches_repo: Path::new(cwd).starts_with(repo_path)
cwd_matches_repo(cwd, repo) == path_starts_with(cwd, repo)

\* the lines the loop of file_has_matching_cwd looks at: at most
\* MAX_LINES_TO_SCAN, and none from the first line that cannot be read
\* (file.bad, 0 when every line can be) onwards
LinesLookedAt(file) ==
    MinOrZero({n \in 0..Len(file.lines) :
                  \/ n = Len(file.lines)
                  \/ n = MAX_LINES_TO_SCAN
                  \/ n + 1 = file.bad})

\* the first line among the first n with a cwd field, 0 when there is none
FirstCwdLine(lines, n) ==
    MinOrZero({i \in 1..n : extract_cwd_from_json(lines[i]) # <<>>})

\* the return inside the loop: the first cwd found decides
DecidedBy(lines, i, repo) ==
    i # 0 /\ cwd_matches_repo(extract_cwd_from_json(lines[i])[1], repo)

\* a scan that goes on past a cwd that does not match
file_has_matching_cwd_any(file, repo) ==
    /\ file.readable
    /\ \E i \in 1..LinesLookedAt(file) :
          /\ extract_cwd_from_json(file.lines[i]) # <<>>
          /\ cwd_matches_repo(extract_cwd_from_json(file.lines[i])[1], repo)

file_has_matching_cwd(file, repo) ==
    /\ file.readable
    /\ DecidedBy(file.lines, FirstCwdLine(file.lines, LinesLookedAt(file)), repo)

find_session_file_with_cwd(home_, base_dir, ext, repo) ==
    \E file \in home_.files :
        /\ file.base = base_dir
        /\ has_extension(file.path, ext)
        /\ is_recent(file)
        /\ file_has_matching_cwd(file, repo)

check_source(home_, source, repo) ==
    IF home_.HOME = <<>> \/ source.base_dir \notin home_.dirs THEN 0
    ELSE IF find_session_file_with_cwd(home_, source.base_dir, source.file_ext, repo)
         THEN find_agent(source.email_prefix)
    ELSE 0

detect_agents_from_breadcrumbs(home_, repo) ==
    SelectSeq([i \in 1..Len(SOURCES) |-> check_source(home_, SOURCES[i], repo)],
              LAMBDA a : a # 0)

\* the home directories of the orchestration runs: no session files, or a
\* recent Claude Code session started in the repository
Homes ==
    { [HOME |-> <<"/Users/foo">>, dirs |-> {}, files |-> {}],
      [HOME |-> <<"/Users/foo">>, dirs |-> {".claude/projects"},
       files |-> {[base |-> ".claude/projects",
                   path |-> "-Users-foo-aittributor/session.jsonl",
                   age |-> 60, readable |-> TRUE, bad |-> 0,
                   lines |-> <<"{\"type\":\"file-history-snapshot\",\"messageId\":\"abc\"}",
                               "{\"type\":\"user\",\"cwd\":\"/Users/foo/aittributor\"}">>]}] }

(***************************************************************************)
(* Tokens looked up by name: a directory prefix of at most MaxDepth        *)
(* components, a stem and an ending.                                       *)
(***************************************************************************)
DirNames == {"opt", "claude-work", "..", "."}

RECURSIVE DirPrefixes(_)
DirPrefixes(n) ==
    IF n = 0 THEN {"", "/"}
    ELSE DirPrefixes(n - 1)
           \cup {p \o d \o "/" : p \in DirPrefixes(n - 1), d \in DirNames}

Stems ==
    {"claude", "goose", "cursor", "cursor-agent", "aider", "windsurf", "codex",
     "copilot-agent", "amazon-q", "q", "amp", "gemini",
     "Claude", "AMP", "claude-code", "amp-claude", "Q", "cline", "unknown",
     "zsh", "", "..", "."}

Endings == {"", "/", "/.", "/..", ".sh"}

Tokens == {p \o s \o e : p \in DirPrefixes(MaxDepth), s \in Stems, e \in Endings}

\* consecutive append_trailers calls on one message file
MaxCalls == 3

\* the agents whose trailers are appended: Claude Code, Codex, Amp
TrailerAgents ==
    {i \in 1..Len(KNOWN_AGENTS) :
        KNOWN_AGENTS[i].process_names \in {<<"claude">>, <<"codex">>, <<"amp">>}}

IoOutcomes == {"ok", "read_err", "git_err"}

InitialMessages ==
    { "Initial commit\n",
      "Initial commit",
      "",
      "Fix the parser\n\nThe lexer dropped the last token.\nNow it does not.\n",
      "Fix\n\nSigned-off-by: Dev <d@e>\n",
      "Fix\n\nCo-authored-by: Dev <d@e>\n",
      "Fix\n\nco-authored-by: Claude Code <noreply@anthropic.com>\n",
      "Pair with Amp <amp@ampcode.com>\n\nCo-authored-by: Dev <d@e>\n" }

VARIABLES
    token,              \* the name handed to find_by_name
    found,              \* what find_by_name returned (0: None)
    lookup_pc,          \* "call" before the lookup, "ret" after it
    content,            \* the text of the commit message file
    history,            \* the append_trailers calls made on it so far
    env,                \* the process environment
    commit_msg_file,    \* cli.commit_msg_file: <<>> or <<path>>
    os_procs,           \* the OS process table
    home,               \* the user's home directory
    system,             \* the snapshot System::new_all() took
    repo_path,          \* detect_agent's repo_path, "" before it is set
    current_pid,        \* the walks' current_pid
    checked_ancestors,  \* walk_ancestry_and_descendants' set
    pc,                 \* where main is
    detected,           \* what detect_agent returns (0: None)
    stdout,             \* lines printed to standard output
    stderr,             \* lines printed to standard error
    exit_code,          \* the process's exit status, once pc = "exit"
    deadline_elapsed,   \* one second has passed since main started
    scan_fn,            \* the function the scan specification calls
    scan_pc,            \* "call" before it runs, "ret" after
    scan_cwd,           \* the cwd handed to cwd_matches_repo or reported by a process
    scan_root,          \* the repo_path of the call
    scan_file,          \* the session file handed to file_has_matching_cwd
    scan_line,          \* the line handed to extract_cwd_from_json
    scan_matches,       \* the bool the call returned
    scan_extracted      \* what extract_cwd_from_json returned: <<>> or <<value>>

lookup_vars == <<token, found, lookup_pc>>
trailer_vars == <<content, history>>
main_vars ==
    <<env, commit_msg_file, os_procs, home, system, repo_path, current_pid,
      checked_ancestors, pc, detected, stdout, stderr, exit_code, deadline_elapsed>>
scan_vars ==
    <<scan_fn, scan_pc, scan_cwd, scan_root, scan_file, scan_line, scan_matches, scan_extracted>>
vars == <<lookup_vars, trailer_vars, main_vars, scan_vars>>

LookupIdle == token = "" /\ found = 0 /\ lookup_pc = "idle"

MainIdle ==
    /\ env = [CLINE_ACTIVE |-> <<>>]
    /\ commit_msg_file = <<>>
    /\ os_procs = <<>>
    /\ home = [HOME |-> <<>>, dirs |-> {}, files |-> {}]
    /\ system = NoSystem
    /\ repo_path = ""
    /\ current_pid = CurrentPid
    /\ checked_ancestors = {}
    /\ pc = "idle"
    /\ detected = 0
    /\ stdout = <<>>
    /\ stderr = <<>>
    /\ exit_code = 0
    /\ deadline_elapsed = FALSE

ScanIdle ==
    /\ scan_fn = "none"
    /\ scan_pc = "idle"
    /\ scan_cwd = ""
    /\ scan_root = ""
    /\ scan_file = [readable |-> FALSE, lines |-> <<>>, bad |-> 0]
    /\ scan_line = ""
    /\ scan_matches = FALSE
    /\ scan_extracted = <<>>

(***************************************************************************)
(* SpecLookup: find_by_name applied to one token.                          *)
(***************************************************************************)
LookupInit ==
    /\ token \in Tokens
    /\ found = 0
    /\ lookup_pc = "call"
    /\ content = "" /\ history = <<>>
    /\ MainIdle
    /\ ScanIdle

Lookup ==
    /\ lookup_pc = "call"
    /\ found' = find_by_name(token)
    /\ lookup_pc' = "ret"
    /\ UNCHANGED <<token, trailer_vars, main_vars, scan_vars>>

LookupNext == Lookup

SpecLookup == LookupInit /\ [][LookupNext]_vars

(***************************************************************************)
(* SpecTrailers: append_trailers called up to MaxCalls times on one commit *)
(* message file, for any of the agents, git and the file system working or *)
(* failing at each call.                                                   *)
(***************************************************************************)
TrailersInit ==
    /\ content \in InitialMessages
    /\ history = <<>>
    /\ LookupIdle
    /\ MainIdle
    /\ ScanIdle

AppendTrailers ==
    /\ Len(history) < MaxCalls
    /\ \E a \in TrailerAgents, io \in IoOutcomes :
          LET r == append_trailers(content, KNOWN_AGENTS[a].email, io)
          IN  /\ content' = r.content
              /\ history' = Append(history, [agent |-> a, result |-> r.result,
                                             before |-> content, after |-> r.content])
    /\ UNCHANGED <<lookup_vars, scan_vars, main_vars>>

TrailersNext == AppendTrailers

SpecTrailers == TrailersInit /\ [][TrailersNext]_vars

(***************************************************************************)
(* Spec: one run of main.  Cli::parse has set commit_msg_file; pc follows  *)
(* main through detect_agent (the environment, the snapshot, the two       *)
(* walks) to the report or the trailers.  The wall clock runs beside it.   *)
(***************************************************************************)
EnvValues == {<<>>, <<"true">>, <<"TRUE">>}

Init ==
    /\ env \in [CLINE_ACTIVE : EnvValues]
    /\ commit_msg_file \in {<<>>, <<".git/COMMIT_EDITMSG">>}
    /\ os_procs \in ProcessTables
    /\ home \in Homes
    /\ system = NoSystem
    /\ repo_path = ""
    /\ current_pid = CurrentPid
    /\ checked_ancestors = {}
    /\ pc = "env"
    /\ detected = 0
    /\ stdout = <<>>
    /\ stderr = <<>>
    /\ exit_code = 0
    /\ deadline_elapsed = FALSE
    /\ content = "Initial commit\n"
    /\ history = <<>>
    /\ LookupIdle
    /\ ScanIdle

\* detect_agent, first part: an environment match is returned at once
FindAgentByEnv ==
    /\ pc = "env"
    /\ IF find_agent_by_env(env) # 0
       THEN detected' = find_agent_by_env(env) /\ pc' = "detected"
       ELSE detected' = detected /\ pc' = "snapshot"
    /\ UNCHANGED <<lookup_vars, scan_vars, trailer_vars, env, commit_msg_file, os_procs, home,
                   system, repo_path, current_pid, checked_ancestors, stdout,
                   stderr, exit_code, deadline_elapsed>>

\* detect_agent, second part: current_dir (None is returned when it fails),
\* the repository root and System::new_all()
NewSystem ==
    /\ pc = "snapshot"
    /\ \E cwd_ok \in BOOLEAN, order \in Orders :
          IF cwd_ok
          THEN /\ repo_path' = RepoPath
               /\ system' = [procs |-> os_procs, order |-> order]
               /\ pc' = "ancestry"
               /\ detected' = detected
          ELSE /\ detected' = 0
               /\ pc' = "detected"
               /\ UNCHANGED <<repo_path, system>>
    /\ current_pid' = CurrentPid
    /\ UNCHANGED <<lookup_vars, scan_vars, trailer_vars, env, commit_msg_file, os_procs, home,
                   checked_ancestors, stdout, stderr, exit_code, deadline_elapsed>>

\* walk_ancestry, one turn of its loop: the first matching process is returned
walk_ancestry ==
    /\ pc = "ancestry"
    /\ IF ~HasProcess(system, current_pid)
       THEN \* the loop ends, None: walk_ancestry_and_descendants starts
            /\ pc' = "descendants"
            /\ current_pid' = CurrentPid
            /\ detected' = detected
       ELSE LET process == system.procs[current_pid]
                agent   == find_agent_for_process(process.image)
            IN  IF agent # 0
                THEN detected' = agent /\ pc' = "detected" /\ current_pid' = current_pid
                ELSE IF process.parent # 0 /\ process.parent # current_pid
                     THEN /\ current_pid' = process.parent
                          /\ pc' = pc
                          /\ detected' = detected
                     ELSE /\ pc' = "descendants"
                          /\ current_pid' = CurrentPid
                          /\ detected' = detected
    /\ checked_ancestors' = {}
    /\ UNCHANGED <<lookup_vars, scan_vars, trailer_vars, env, commit_msg_file, os_procs, home,
                   system, repo_path, stdout, stderr, exit_code, deadline_elapsed>>

\* walk_ancestry_and_descendants, one turn of its loop: the subtrees of the
\* current ancestor's siblings are searched, then the walk climbs
walk_ancestry_and_descendants ==
    /\ pc = "descendants"
    /\ IF \/ ~HasProcess(system, current_pid)
          \/ current_pid \in checked_ancestors
          \/ system.procs[current_pid].parent = 0
          \/ system.procs[current_pid].parent = current_pid
       THEN /\ detected' = 0
            /\ pc' = "detected"
            /\ current_pid' = current_pid
            /\ checked_ancestors' =
                  IF HasProcess(system, current_pid)
                  THEN checked_ancestors \cup {current_pid} ELSE checked_ancestors
       ELSE LET parent_pid == system.procs[current_pid].parent
                agent      == FirstSiblingMatch(system, parent_pid, repo_path)
            IN  /\ checked_ancestors' = checked_ancestors \cup {current_pid}
                /\ IF agent # 0
                   THEN detected' = agent /\ pc' = "detected"
                        /\ current_pid' = current_pid
                   ELSE detected' = detected /\ pc' = pc
                        /\ current_pid' = parent_pid
    /\ UNCHANGED <<lookup_vars, scan_vars, trailer_vars, env, commit_msg_file, os_procs, home,
                   system, repo_path, stdout, stderr, exit_code, deadline_elapsed>>

\* main without a commit message file: print the agent, or fail with status 1
ReportAgent ==
    /\ pc = "detected"
    /\ commit_msg_file = <<>>
    /\ IF detected # 0
       THEN /\ stdout' = Append(stdout, main_KNOWN_AGENTS[detected].email)
            /\ UNCHANGED stderr
            /\ exit_code' = 0
       ELSE /\ stderr' = Append(stderr, "No agent found")
            /\ UNCHANGED stdout
            /\ exit_code' = 1
    /\ pc' = "exit"
    /\ UNCHANGED <<lookup_vars, scan_vars, trailer_vars, env, commit_msg_file, os_procs, home,
                   system, repo_path, current_pid, checked_ancestors, detected,
                   deadline_elapsed>>

\* one append_trailers call of the hook with its outcome r: the file is
\* rewritten, the call is recorded, an Err is a warning on standard error
HookCall(agent, r) ==
    /\ content' = r.content
    /\ history' = Append(history, [agent |-> agent, result |-> r.result,
                                   before |-> content, after |-> r.content])
    /\ stderr' = IF r.result = "Err"
                 THEN Append(stderr, "aittributor: failed to append trailers")
                 ELSE stderr

\* a hook that passes the failure on to git as its exit status
AppendForAgent_failing ==
    /\ pc = "detected"
    /\ commit_msg_file # <<>>
    /\ IF detected # 0
       THEN \E io \in IoOutcomes :
               \E r \in {append_trailers(content, main_KNOWN_AGENTS[detected].email, io)} :
                  HookCall(detected, r)
       ELSE UNCHANGED <<content, history, stderr>>
    /\ exit_code' = IF stderr' # stderr THEN 1 ELSE 0
    /\ pc' = "exit"
    /\ UNCHANGED <<lookup_vars, scan_vars, env, commit_msg_file, os_procs, home,
                   system, repo_path, current_pid, checked_ancestors, detected,
                   stdout, deadline_elapsed>>

\* main as the hook: the detected agent's trailers are appended; a failure is
\* a warning on standard error, and main returns normally
AppendForAgent ==
    /\ pc = "detected"
    /\ commit_msg_file # <<>>
    /\ IF detected # 0
       THEN \E io \in IoOutcomes :
               \E r \in {append_trailers(content, main_KNOWN_AGENTS[detected].email, io)} :
                  HookCall(detected, r)
       ELSE UNCHANGED <<content, history, stderr>>
    /\ exit_code' = 0
    /\ pc' = "exit"
    /\ UNCHANGED <<lookup_vars, scan_vars, env, commit_msg_file, os_procs, home,
                   system, repo_path, current_pid, checked_ancestors, detected,
                   stdout, deadline_elapsed>>

\* the wall clock: one second has passed and main has not returned yet.
\* main sets no timer and spawns no worker, so nothing reads this.
DeadlineElapses ==
    /\ pc \in {"env", "snapshot", "ancestry", "descendants", "detected"}
    /\ ~deadline_elapsed
    /\ deadline_elapsed' = TRUE
    /\ UNCHANGED <<lookup_vars, scan_vars, trailer_vars, env, commit_msg_file, os_procs, home,
                   system, repo_path, current_pid, checked_ancestors, pc, detected,
                   stdout, stderr, exit_code>>

Next ==
    \/ FindAgentByEnv
    \/ NewSystem
    \/ walk_ancestry
    \/ walk_ancestry_and_descendants
    \/ ReportAgent
    \/ AppendForAgent
    \/ DeadlineElapses

Spec == Init /\ [][Next]_vars

(***************************************************************************)
(* Claims about the name lookup, stated without Path: by trimming the      *)
(* token's text.                                                           *)
(***************************************************************************)
RECURSIVE AfterLastSlash(_)
AfterLastSlash(s) ==
    IF ~Contains(s, "/") THEN s
    ELSE AfterLastSlash(SubSeq(s, 2, Len(s)))

\* the last '/'-separated piece that is not empty and not a trailing ".":
\* a trailing separator, and a "." after a separator, are dropped
RECURSIVE TrimTrailing(_)
TrimTrailing(s) ==
    IF Len(s) > 1 /\ EndsWith(s, "/") THEN TrimTrailing(SubSeq(s, 1, Len(s) - 1))
    ELSE IF EndsWith(s, "/.") THEN TrimTrailing(SubSeq(s, 1, Len(s) - 1))
    ELSE s

FinalComponent(s) == AfterLastSlash(TrimTrailing(s))

\* a token has a file name unless it is empty, the root, "." or ends in ".."
HasFileName(s) ==
    /\ TrimTrailing(s) \notin {"", "/", "."}
    /\ FinalComponent(s) # ".."

PatternIn(i, n) ==
    \E k \in 1..Len(KNOWN_AGENTS[i].process_names) :
        Contains(n, KNOWN_AGENTS[i].process_names[k])

\* r is the first registry entry with a pattern inside n, or 0 when there is none
IsFirstEntryFor(r, n) ==
    /\ r \in 0..Len(KNOWN_AGENTS)
    /\ (r = 0) <=> (\A i \in 1..Len(KNOWN_AGENTS) : ~PatternIn(i, n))
    /\ r # 0 => PatternIn(r, n) /\ \A j \in 1..(r - 1) : ~PatternIn(j, n)

\* C6 as claimed: the lookup returns the first entry with a pattern inside the
\* lowercased final path component of the token, so a path and its final
\* component are looked up alike.
C6_FinalComponentOnly ==
    lookup_pc = "ret" =>
        /\ IsFirstEntryFor(found, to_lowercase(FinalComponent(token)))
        /\ found = find_by_name(FinalComponent(token))

\* C6, amended: the lookup returns the first entry, in declaration order, with a
\* pattern inside the lowercased file name of the token, or inside the whole
\* lowercased token when it has no file name (empty, root, ".", ending in "..");
\* a token with a file name is looked up like that file name, the lookup ignores
\* the token's case, and an entry without patterns is never returned.
C6_FirstEntryByFileName ==
    lookup_pc = "ret" =>
        /\ IsFirstEntryFor(found,
              to_lowercase(IF HasFileName(token) THEN FinalComponent(token) ELSE token))
        /\ HasFileName(token) => found = find_by_name(FinalComponent(token))
        /\ found = find_by_name(to_lowercase(token))
        /\ found # 0 => KNOWN_AGENTS[found].process_names # <<>>

C6_Witness ==
    /\ lookup_pc = "ret"
    /\ token = "/opt/AMP"
    /\ found # 0
    /\ KNOWN_AGENTS[found].email = "Amp <amp@ampcode.com>"

\* C7: looking up a token that is exactly a pattern of a registry entry finds
\* that entry: no earlier entry shadows it.
C7_PatternFindsOwnEntry ==
    lookup_pc = "ret" =>
        \A i \in 1..Len(KNOWN_AGENTS) :
            \A k \in 1..Len(KNOWN_AGENTS[i].process_names) :
                token = KNOWN_AGENTS[i].process_names[k]
                    => /\ found = i
                       /\ main_KNOWN_AGENTS[found].process_names
                              = KNOWN_AGENTS[i].process_names

C7_Witness ==
    /\ lookup_pc = "ret"
    /\ token = "cursor-agent"
    /\ found # 0
    /\ KNOWN_AGENTS[found].email = "Cursor <noreply@cursor.com>"

(***************************************************************************)
(* Claims about append_trailers.                                           *)
(***************************************************************************)
\* the lines of the text equal to line
CountLines(text, line) ==
    Cardinality({i \in 1..Len(Lines(text)) : Lines(text)[i] = line})

\* the address of an identity: what stands between '<' and '>', or the whole
\* identity when it has no angle brackets
EmailOf(identity) ==
    LET lt == IndexOf(identity, "<")
        gt == IndexOf(identity, ">")
    IN  IF lt = 0 \/ gt = 0 \/ gt < lt THEN identity
        ELSE SubSeq(identity, lt + 1, gt - 1)

\* C9: a second append_trailers call for the same agent changes nothing: of two
\* consecutive calls for one agent that both return Ok, the second leaves the
\* message as the first left it.
C9_SecondCallChangesNothing ==
    \A i \in 2..Len(history) :
        /\ history[i].agent = history[i - 1].agent
        /\ history[i].result = "Ok"
        /\ history[i - 1].result = "Ok"
        => history[i].after = history[i - 1].after

\* the message the calls started from
StartMessage == IF history = <<>> THEN content ELSE history[1].before

\* a message that names none of the agents' addresses and has no Ai-assisted
\* trailer yet, whatever the letter case
Unattributed(text) ==
    /\ \A a \in TrailerAgents :
          ~Contains(to_lowercase(text), to_lowercase(EmailOf(KNOWN_AGENTS[a].email)))
    /\ ~Contains(to_lowercase(text), "ai-assisted")

AppendedAgents ==
    {history[i].agent : i \in {j \in 1..Len(history) : history[j].result = "Ok"}}

\* C10: after any sequence of append_trailers calls on a message that did not
\* name the agents before, the message has exactly one line
\* "Co-authored-by: <identity>" for each agent whose call returned Ok, and the
\* line "Ai-assisted: true" exactly once.
C10_OneTrailerPerAgent ==
    Unattributed(StartMessage) =>
        /\ \A a \in AppendedAgents :
              CountLines(content, "Co-authored-by: " \o KNOWN_AGENTS[a].email) = 1
        /\ AppendedAgents # {} => CountLines(content, "Ai-assisted: true") = 1

(***************************************************************************)
(* SpecWalk: the two process-tree walks of detect_agent on every snapshot  *)
(* of NumPids processes, whatever its parent pointers: a process may have  *)
(* no parent (0), be its own parent, have a parent that is missing from    *)
(* the snapshot (NumPids + 1), or sit on a cycle.                          *)
(***************************************************************************)
WalkTables == [Pids -> [parent : 0..(NumPids + 1), image : ProcessImages]]

WalkInit ==
    /\ env = [CLINE_ACTIVE |-> <<>>]
    /\ commit_msg_file = <<>>
    /\ os_procs \in WalkTables
    /\ home = [HOME |-> <<>>, dirs |-> {}, files |-> {}]
    /\ system = NoSystem
    /\ repo_path = ""
    /\ current_pid = CurrentPid
    /\ checked_ancestors = {}
    /\ pc = "snapshot"
    /\ detected = 0
    /\ stdout = <<>>
    /\ stderr = <<>>
    /\ exit_code = 0
    /\ deadline_elapsed = FALSE
    /\ content = "" /\ history = <<>>
    /\ LookupIdle
    /\ ScanIdle

WalkNext ==
    \/ NewSystem
    \/ walk_ancestry
    \/ walk_ancestry_and_descendants

SpecWalk == WalkInit /\ [][WalkNext]_vars

(***************************************************************************)
(* SpecScan: one call of a function of the cwd correlation, on inputs      *)
(* drawn from the sets below: cwd_matches_repo, the cwd test of            *)
(* check_process_tree, file_has_matching_cwd, extract_cwd_from_json.       *)
(***************************************************************************)
\* lines of a session file beyond the ones file_has_matching_cwd looks at
MaxFileLines == 6

ScanRoots ==
    {"/Users/foo/monorepo", "/Users/foo/aittributor", "/Users/foo/aittributor/",
     "/Users//foo/aittributor", "/Users/foo/./aittributor", "/Users/foo", "/",
     "Users/foo/monorepo", ""}

ScanCwds ==
    {"/Users/foo/monorepo/apps/backend", "/Users/foo/monorepo/apps/service-a",
     "/Users/foo/monorepo", "/Users/foo/monorepo-old/x", "/Users/foo/aittributor2",
     "/Users/foo/aittributor", "/Users/foo/aittributor/src", "/Users/foo/aittributor/",
     "/Users/foo/aittributor/../other", "/Users/foo", "/Users/foobar", "/",
     "Users/foo/monorepo/apps", "./Users/foo", ""}

FileRoots == {"/Users/foo/myrepo", "/Users/bar/other"}

FileLines ==
    {"{\"type\":\"file-history-snapshot\",\"messageId\":\"abc\"}",
     "{\"type\":\"user\",\"cwd\":\"/Users/foo/myrepo\"}",
     "{\"type\":\"user\",\"cwd\":\"/Users/bar/other\"}"}

ScanFiles ==
    [readable : BOOLEAN,
     lines    : UNION {[1..n -> FileLines] : n \in 0..MaxFileLines},
     bad      : 0..3]

ExtractLines ==
    {"{\"type\":\"session_meta\",\"cwd\":\"/Users/foo/myrepo\",\"branch\":\"main\"}",
     "{\"type\":\"session_meta\",\"branch\":\"main\"}",
     "{\"cwd\":\"/Users/foo/my\\\"repo\",\"branch\":\"main\"}",
     "{\"cwd\":\"C:\\\\Users\\\\foo\\\\\",\"branch\":\"main\"}",
     "{\"cwd\":\"/Users/foo",
     "{\"cwd\":\"\",\"x\":1}",
     "{\"cwd\":\"/a\",\"cwd\":\"/b\"}",
     "{\"cwd\": \"/spaced\"}",
     "{\"type\":\"x\",\"cwd\":\"",
     ""}

ScanInit ==
    /\ scan_pc = "call"
    /\ \/ /\ scan_fn \in {"cwd_matches_repo", "check_process_tree"}
          /\ scan_cwd \in ScanCwds
          /\ scan_root \in ScanRoots
          /\ scan_file = [readable |-> FALSE, lines |-> <<>>, bad |-> 0]
          /\ scan_line = ""
       \/ /\ scan_fn = "file_has_matching_cwd"
          /\ scan_file \in ScanFiles
          /\ scan_root \in FileRoots
          /\ scan_cwd = ""
          /\ scan_line = ""
       \/ /\ scan_fn = "extract_cwd_from_json"
          /\ scan_line \in ExtractLines
          /\ scan_file = [readable |-> FALSE, lines |-> <<>>, bad |-> 0]
          /\ scan_cwd = ""
          /\ scan_root = ""
    /\ scan_matches = FALSE
    /\ scan_extracted = <<>>
    /\ content = "" /\ history = <<>>
    /\ LookupIdle
    /\ MainIdle

\* cwd_matches_repo on a cwd read from a session file
CwdMatchesRepo ==
    /\ scan_pc = "call" /\ scan_fn = "cwd_matches_repo"
    /\ scan_matches' = cwd_matches_repo(scan_cwd, scan_root)
    /\ scan_pc' = "ret"
    /\ UNCHANGED <<lookup_vars, trailer_vars, main_vars, scan_fn, scan_cwd, scan_root,
                   scan_file, scan_line, scan_extracted>>

\* a snapshot of one process that runs claude in the directory cwd
OneAgentProcess(cwd) ==
    [procs |-> <<[parent |-> 0,
                  image  |-> [name |-> "claude", cmd |-> <<"claude">>, cwd |-> <<cwd>>]]>>,
     order |-> <<1>>]

\* check_process_tree on a subtree whose only process is an agent at scan_cwd
CheckProcessCwd ==
    /\ scan_pc = "call" /\ scan_fn = "check_process_tree"
    /\ scan_matches' = (check_process_tree(OneAgentProcess(scan_cwd), 1, scan_root) # 0)
    /\ scan_pc' = "ret"
    /\ UNCHANGED <<lookup_vars, trailer_vars, main_vars, scan_fn, scan_cwd, scan_root,
                   scan_file, scan_line, scan_extracted>>

FileHasMatchingCwd ==
    /\ scan_pc = "call" /\ scan_fn = "file_has_matching_cwd"
    /\ scan_matches' = file_has_matching_cwd(scan_file, scan_root)
    /\ scan_pc' = "ret"
    /\ UNCHANGED <<lookup_vars, trailer_vars, main_vars, scan_fn, scan_cwd, scan_root,
                   scan_file, scan_line, scan_extracted>>

ExtractCwdFromJson ==
    /\ scan_pc = "call" /\ scan_fn = "extract_cwd_from_json"
    /\ scan_extracted' = extract_cwd_from_json(scan_line)
    /\ scan_pc' = "ret"
    /\ UNCHANGED <<lookup_vars, trailer_vars, main_vars, scan_fn, scan_cwd, scan_root,
                   scan_file, scan_line, scan_matches>>

ScanNext ==
    \/ CwdMatchesRepo
    \/ CheckProcessCwd
    \/ FileHasMatchingCwd
    \/ ExtractCwdFromJson

SpecScan == ScanInit /\ [][ScanNext]_vars

(***************************************************************************)
(* Statements about the orchestration (Spec).  The vocabulary below is     *)
(* that of the statements: what each signal matches in the world the run   *)
(* started in, whatever the run itself went on to read.                    *)
(***************************************************************************)
\* the pids from pid upward: the chain ends at a pid that is missing, has no
\* parent or is its own parent
RECURSIVE ParentChain(_, _, _)
ParentChain(procs, pid, fuel) ==
    IF fuel = 0 \/ pid \notin DOMAIN procs THEN <<>>
    ELSE IF procs[pid].parent = 0 \/ procs[pid].parent = pid THEN <<pid>>
    ELSE <<pid>> \o ParentChain(procs, procs[pid].parent, fuel - 1)

Chain == ParentChain(os_procs, CurrentPid, NumPids)

\* the identities a sequence of registry indices stands for
Identities(registry, agents) == [i \in 1..Len(agents) |-> registry[agents[i]].email]

NonZero(agents) == SelectSeq(agents, LAMBDA a : a # 0)

\* what the environment matches
EnvMatchList == NonZero(<<find_agent_by_env(env)>>)

\* every ancestor that matches an agent, nearest first
AncestryMatchList ==
    NonZero([i \in 1..Len(Chain) |-> find_agent_for_process(os_procs[Chain[i]].image)])

\* the processes below the parents of the chain: the siblings of the ancestors
\* and their subtrees
BelowChainParents ==
    {q \in Pids : \E i \in 2..Len(ParentChain(os_procs, q, NumPids)) :
                     \E k \in 1..Len(Chain) :
                        ParentChain(os_procs, q, NumPids)[i] = os_procs[Chain[k]].parent}

\* the agents matched there by a process whose cwd is under the repository
DescendantMatchSet ==
    {TreeMatch([procs |-> os_procs, order |-> <<>>], q, RepoPath) :
        q \in BelowChainParents} \ {0}

BreadcrumbMatchList == detect_agents_from_breadcrumbs(home, RepoPath)

\* what detect_agent returned, as the list of identities it stands for
ResultList == Identities(main_KNOWN_AGENTS, NonZero(<<detected>>))

EmailsOf(identities) == {EmailOf(identities[i]) : i \in 1..Len(identities)}

\* the first occurrence per email address, relative order kept
FirstPerEmail(identities) ==
    LET keep == {i \in 1..Len(identities) :
                    \A j \in 1..(i - 1) : EmailOf(identities[j]) # EmailOf(identities[i])}
        nth(k) == CHOOSE i \in keep : Cardinality({j \in keep : j < i}) = k - 1
    IN  [k \in 1..Cardinality(keep) |-> identities[nth(k)]]

\* the orders a set of agents can be listed in
ListingsOf(S) == {q \in [1..Cardinality(S) -> S] : \A a \in S : \E i \in DOMAIN q : q[i] = a}

Returned == pc = "exit"

\* C1: when the environment matches an agent, every agent matched by the
\* ancestor walk, by the descendant/sibling walk or by the breadcrumb scan is
\* still part of the detection result, up to its email address.
C1_EnvMatchDoesNotStopDetection ==
    Returned /\ EnvMatchList # <<>> =>
        /\ EmailsOf(Identities(main_KNOWN_AGENTS, AncestryMatchList)) \subseteq EmailsOf(ResultList)
        /\ {EmailOf(main_KNOWN_AGENTS[a].email) : a \in DescendantMatchSet}
              \subseteq EmailsOf(ResultList)
        /\ EmailsOf(Identities(KNOWN_AGENTS, BreadcrumbMatchList)) \subseteq EmailsOf(ResultList)

\* C2: the detection result is the concatenation of the match lists in the
\* order env, ancestry, descendants, breadcrumbs, filtered to the first
\* occurrence per email address.
C2_ResultIsMergedMatchLists ==
    Returned =>
        \E d \in ListingsOf(DescendantMatchSet) :
            ResultList = FirstPerEmail(Identities(main_KNOWN_AGENTS, EnvMatchList)
                                         \o Identities(main_KNOWN_AGENTS, AncestryMatchList)
                                         \o Identities(main_KNOWN_AGENTS, d)
                                         \o Identities(KNOWN_AGENTS, BreadcrumbMatchList))

\* the breadcrumb matches whose address no other signal matched
FreshBreadcrumbs ==
    SelectSeq(Identities(KNOWN_AGENTS, BreadcrumbMatchList),
              LAMBDA b : EmailOf(b) \notin
                            EmailsOf(Identities(main_KNOWN_AGENTS, EnvMatchList))
                              \cup EmailsOf(Identities(main_KNOWN_AGENTS, AncestryMatchList))
                              \cup {EmailOf(main_KNOWN_AGENTS[a].email) : a \in DescendantMatchSet})

\* C3: whenever the breadcrumb scan finishes, its matches are merged in after
\* the env, ancestry and descendant matches: the detection result ends with
\* the breadcrumb matches that no other signal matched.
C3_BreadcrumbMatchesComeLast ==
    Returned =>
        /\ Len(FirstPerEmail(FreshBreadcrumbs)) <= Len(ResultList)
        /\ SubSeq(ResultList,
                  Len(ResultList) - Len(FirstPerEmail(FreshBreadcrumbs)) + 1,
                  Len(ResultList)) = FirstPerEmail(FreshBreadcrumbs)

\* C4: once the one-second deadline has elapsed before the pipeline finished,
\* nothing is emitted any more: no line is printed to standard output and
\* the commit message file is not written.
C4_NothingEmittedAfterDeadline ==
    [][deadline_elapsed => stdout' = stdout /\ content' = content]_vars

\* C5: the ancestor walk collects every match: when it ends, each process on
\* the parent chain from the current pid that matches an agent has
\* contributed that agent, nearest ancestor first.
C5_AncestorWalkCollectsAllMatches ==
    pc = "detected" /\ system # NoSystem /\ checked_ancestors = {} /\ detected # 0 =>
        NonZero(<<detected>>) = AncestryMatchList

\* what Agent::find_by_env and find_agent_by_env are to return: the first
\* entry with a non-empty required-env list whose pairs all equal the
\* environment, 0 when there is none
FirstEnvEntry(registry) ==
    MinOrZero({i \in 1..Len(registry) :
                  /\ registry[i].env_vars # <<>>
                  /\ \A k \in 1..Len(registry[i].env_vars) :
                        /\ registry[i].env_vars[k][1] \in DOMAIN env
                        /\ env[registry[i].env_vars[k][1]] = <<registry[i].env_vars[k][2]>>})

Cline == CHOOSE i \in 1..Len(KNOWN_AGENTS) : KNOWN_AGENTS[i].email = "Cline <noreply@cline.bot>"

\* C8: the environment lookup returns the first registry entry whose
\* required-env list is non-empty and whose pairs all equal the environment
\* exactly, and none otherwise; with CLINE_ACTIVE=true detection returns
\* exactly Cline, with CLINE_ACTIVE unset or "TRUE" there is no environment
\* match.
C8_EnvLookup ==
    /\ find_by_env(env) = FirstEnvEntry(KNOWN_AGENTS)
    /\ find_agent_by_env(env) = FirstEnvEntry(main_KNOWN_AGENTS)
    /\ env.CLINE_ACTIVE = <<"true">> => find_agent_by_env(env) = Cline
    /\ env.CLINE_ACTIVE # <<"true">> => find_agent_by_env(env) = 0 /\ find_by_env(env) = 0
    /\ Returned /\ env.CLINE_ACTIVE = <<"true">> =>
          /\ detected = Cline
          /\ commit_msg_file = <<>> => stdout = <<"Cline <noreply@cline.bot>">>

C8_Witness ==
    /\ Returned
    /\ env.CLINE_ACTIVE = <<"true">>
    /\ AncestryMatchList = <<>>
    /\ BreadcrumbMatchList = <<>>
    /\ detected = Cline
    /\ stdout = <<"Cline <noreply@cline.bot>">>

(***************************************************************************)
(* Statements about the hook's failure handling (Spec).                    *)
(***************************************************************************)
HookMode == commit_msg_file # <<>>

Warning == "aittributor: failed to append trailers"

\* C11: in hook mode a failure of the trailer rewriting is a warning on
\* standard error (one per failed call, nothing else is written there), every
\* detected agent has had its append_trailers call, a failed call leaves the
\* message as it was, nothing is printed on standard output, and the process
\* ends with exit status 0.
C11_HookFailureIsWarning ==
    Returned /\ HookMode =>
        /\ exit_code = 0
        /\ stdout = <<>>
        /\ [i \in 1..Len(history) |-> history[i].agent] = NonZero(<<detected>>)
        /\ stderr = [i \in 1..Len(SelectSeq(history, LAMBDA h : h.result = "Err")) |-> Warning]
        /\ \A i \in 1..Len(history) :
              history[i].result = "Err" => history[i].after = history[i].before

C11_Witness ==
    /\ Returned
    /\ HookMode
    /\ detected # 0
    /\ Len(history) = 1
    /\ history[1].result = "Err"
    /\ stderr = <<Warning>>
    /\ exit_code = 0

(***************************************************************************)
(* Statements about the cwd correlation (SpecScan).                        *)
(***************************************************************************)
\* the components of a path, read off the string: the maximal runs of
\* characters other than '/', in order, without the "." runs (a leading "."
\* of a relative path stays), after a root mark when the path starts with '/'
RunStarts(p) ==
    {i \in 1..Len(p) : CharAt(p, i) # "/" /\ (i = 1 \/ CharAt(p, i - 1) = "/")}

RunAt(p, i) ==
    SubSeq(p, i, MinOrZero({j \in i..Len(p) : j = Len(p) \/ CharAt(p, j + 1) = "/"}))

KeptRuns(p) == {i \in RunStarts(p) : RunAt(p, i) # "." \/ i = 1}

PathParts(p) ==
    (IF StartsWith(p, "/") THEN <<"/">> ELSE <<>>)
      \o [k \in 1..Cardinality(KeptRuns(p)) |->
             RunAt(p, CHOOSE i \in KeptRuns(p) :
                         Cardinality({j \in KeptRuns(p) : j < i}) = k - 1)]

ComponentPrefix(root_, cwd_) ==
    /\ Len(PathParts(root_)) <= Len(PathParts(cwd_))
    /\ SubSeq(PathParts(cwd_), 1, Len(PathParts(root_))) = PathParts(root_)

\* an absolute path spelled without "//", "/./" or a final '/'
Plain(p) ==
    /\ StartsWith(p, "/")
    /\ ~Contains(p, "//")
    /\ ~Contains(p, "/./")
    /\ ~EndsWith(p, "/.")
    /\ (p = "/" \/ ~EndsWith(p, "/"))

CwdCallReturned ==
    scan_pc = "ret" /\ scan_fn \in {"cwd_matches_repo", "check_process_tree"}

\* C12: in the breadcrumb scan and in the subtree search alike, a cwd matches
\* the repository root exactly when the root's components are a prefix of the
\* cwd's components; on plainly spelled paths that is: the cwd is the root or
\* continues it after a '/', never a longer name that merely starts with it.
C12_ComponentWisePrefix ==
    CwdCallReturned =>
        /\ scan_matches = ComponentPrefix(scan_root, scan_cwd)
        /\ Plain(scan_cwd) /\ Plain(scan_root) =>
              scan_matches = \/ scan_cwd = scan_root
                             \/ scan_root = "/"
                             \/ StartsWith(scan_cwd, scan_root \o "/")
        /\ scan_cwd = "/Users/foo/monorepo/apps/backend" /\ scan_root = "/Users/foo/monorepo"
              => scan_matches
        /\ scan_cwd = "/Users/foo/aittributor2" /\ scan_root = "/Users/foo/aittributor"
              => ~scan_matches

C12_Witness ==
    /\ scan_pc = "ret"
    /\ scan_fn = "check_process_tree"
    /\ scan_cwd = "/Users/foo/aittributor2"
    /\ scan_root = "/Users/foo/aittributor"
    /\ ~scan_matches

FileCallReturned == scan_pc = "ret" /\ scan_fn = "file_has_matching_cwd"

\* line i of the session file can be read and has a cwd field
HasCwdField(i) ==
    i # scan_file.bad /\ extract_cwd_from_json(scan_file.lines[i]) # <<>>

\* line i is the first of the lines 1..n with a cwd field, and its value has
\* the repository root as a path prefix
FirstCwdMatches(i, n) ==
    /\ i <= n
    /\ HasCwdField(i)
    /\ \A j \in 1..(i - 1) : ~HasCwdField(j)
    /\ ComponentPrefix(scan_root, extract_cwd_from_json(scan_file.lines[i])[1])

\* C13: a session file is a hit exactly when it can be opened and the first of
\* its first 5 lines that has a cwd field has a cwd under the repository
\* root; later lines change nothing.
C13_FirstCwdOfFiveDecides ==
    FileCallReturned =>
        scan_matches =
            /\ scan_file.readable
            /\ \E i \in 1..Len(scan_file.lines) : FirstCwdMatches(i, MAX_LINES_TO_SCAN)

\* the lines before the first one that cannot be read, all of them when
\* every line can be
ReadableLines ==
    IF scan_file.bad \in 1..Len(scan_file.lines)
    THEN scan_file.bad - 1 ELSE Len(scan_file.lines)

\* C13, amended: a session file is a hit exactly when it can be opened and,
\* among its first 5 lines and before its first line that cannot be read, the
\* first line that has a cwd field has a cwd under the repository root.
C13_FirstReadCwdOfFiveDecides ==
    FileCallReturned =>
        scan_matches =
            /\ scan_file.readable
            /\ \E i \in 1..ReadableLines : FirstCwdMatches(i, MAX_LINES_TO_SCAN)

C13_Witness ==
    /\ FileCallReturned
    /\ scan_file.readable
    /\ scan_file.bad = 0
    /\ scan_root = "/Users/foo/myrepo"
    /\ Len(scan_file.lines) >= 2
    /\ scan_file.lines[1] = "{\"type\":\"user\",\"cwd\":\"/Users/bar/other\"}"
    /\ scan_file.lines[2] = "{\"type\":\"user\",\"cwd\":\"/Users/foo/myrepo\"}"
    /\ ~scan_matches

(***************************************************************************)
(* Statements about the process-tree walks (SpecWalk).                     *)
(***************************************************************************)
\* the descendant/sibling walk has returned an agent
DescendantWalkReturned ==
    pc = "detected" /\ system # NoSystem /\ checked_ancestors # {} /\ detected # 0

\* process q of the snapshot matches the returned agent
MatchesDetected(q) == find_agent_for_process(system.procs[q].image) = detected

\* process q reports a working directory
ReportsCwd(q) == system.procs[q].image.cwd # <<>>

\* C14, as stated: the agent the descendant/sibling walk returns is matched
\* by a process that reports a working directory, and that working
\* directory is a path-prefix of the repository root.
C14_CwdIsPrefixOfRoot ==
    DescendantWalkReturned =>
        \E q \in Pids :
            /\ MatchesDetected(q)
            /\ ReportsCwd(q)
            /\ ComponentPrefix(system.procs[q].image.cwd[1], repo_path)

\* C14, amended: the agent the descendant/sibling walk returns is matched by
\* a process that reports a working directory which has the repository root
\* as a path-prefix; an agent all of whose processes report no working
\* directory or run in another repository is never returned.
C14_RootIsPrefixOfCwd ==
    DescendantWalkReturned =>
        \E q \in Pids :
            /\ MatchesDetected(q)
            /\ ReportsCwd(q)
            /\ ComponentPrefix(repo_path, system.procs[q].image.cwd[1])

\* the walk returned Claude Code for a sibling of the hook's shell, while
\* another process of the snapshot matches an agent without being in the
\* repository
C14_Witness ==
    /\ DescendantWalkReturned
    /\ \E q \in Pids : MatchesDetected(q) /\ system.procs[q].parent = system.procs[CurrentPid].parent
    /\ \E q \in Pids :
          /\ find_agent_for_process(system.procs[q].image) \notin {0, detected}
          /\ ~(ReportsCwd(q) /\ ComponentPrefix(repo_path, system.procs[q].image.cwd[1]))

\* the pids the ancestor walk has looked at when it stands at pid to: those
\* on the parent chain from pid from up to the first occurrence of to
RECURSIVE Walked(_, _, _, _)
Walked(procs, from, to, fuel) ==
    IF from = to \/ fuel = 0 \/ from \notin DOMAIN procs THEN {from}
    ELSE {from} \cup Walked(procs, procs[from].parent, to, fuel - 1)

\* C15: on every snapshot, self-parented processes, missing pids and cycles
\* of parent pointers included, both walks come to an end because no ancestor
\* is visited twice: a turn of the ancestor walk that stays in the loop moves
\* to a pid the walk has not looked at before, and a turn of the
\* descendant/sibling walk that stays in the loop adds a new pid to
\* checked_ancestors.
C15_EveryTurnVisitsNewPid ==
    [][/\ pc = "ancestry" /\ pc' = "ancestry" =>
             current_pid' \notin Walked(system.procs, CurrentPid, current_pid, NumPids)
       /\ pc = "descendants" /\ pc' = "descendants" =>
             /\ checked_ancestors \subseteq checked_ancestors'
             /\ checked_ancestors' # checked_ancestors]_vars

ExtractCallReturned == scan_fn = "extract_cwd_from_json" /\ scan_pc = "ret"

\* the number of backslashes standing directly before position i of s
BackslashesBefore(s, i) ==
    MaxOrZero({k \in 1..(i - 1) : \A j \in (i - k)..(i - 1) : CharAt(s, j) = "\\"})

\* a double quote that no backslash escapes: an even number of backslashes
\* stands before it
UnescapedQuoteAt(s, i) ==
    CharAt(s, i) = "\"" /\ BackslashesBefore(s, i) % 2 = 0

\* what follows the first occurrence of the marker "cwd":" in the line
AfterMarker(line) ==
    SubSeq(line, IndexOf(line, "\"cwd\":\"") + Len("\"cwd\":\""), Len(line))

HasMarker(line) == IndexOf(line, "\"cwd\":\"") # 0

ClosingQuote(rest) == MinOrZero({i \in 1..Len(rest) : UnescapedQuoteAt(rest, i)})

\* C16: for a line that contains the marker "cwd":", the extraction returns
\* the text from the end of the first marker up to, and not including, the
\* next double quote that is not escaped by a backslash; it returns nothing
\* when the marker is absent or no closing quote follows it.
C16_ValueEndsAtUnescapedQuote ==
    ExtractCallReturned =>
        IF HasMarker(scan_line) /\ ClosingQuote(AfterMarker(scan_line)) # 0
        THEN scan_extracted =
                <<SubSeq(AfterMarker(scan_line), 1,
                         ClosingQuote(AfterMarker(scan_line)) - 1)>>
        ELSE scan_extracted = <<>>

====
